---- MODULE Spec2Model ----
(***************************************************************************)
(* Model of the mosaic grid editor of mosaic-me-web:                       *)
(*   - hooks/useMosaicEditor (edit session: grid, selection, history)      *)
(*   - components/MosaicEditor.tsx (mouse / palette handlers)              *)
(*   - utils/gridUtils.ts (deepCopyGrid, recalculateShoppingList,          *)
(*     floodFill)                                                          *)
(*   - components/ResultsTabs.tsx and the MosaicProvider context (the      *)
(*     mosaic the editor is opened on, Save and Cancel)                    *)
(* Every handler runs to completion as one step: React flushes the state   *)
(* updates of a discrete event before the next event is delivered, so the  *)
(* values a callback closes over are the values of the current state.      *)
(* Rows, columns and the history cursor are 0-based as in the source; the  *)
(* history array is a TLA+ sequence, entry i of the source is history[i+1].*)
(***************************************************************************)
EXTENDS Integers, Sequences, FiniteSets, TLC

\* ---------------------------------------------------------------- bounds
\* width of the one-row grids the edit session is explored on
Cols == 2
NColors == 2
\* history pushes explored per seeded history under free user input
MaxEdits == 1
\* history pushes explored per seeded history under the scripted user
MaxLongEdits == 52
\* width of the two-row grids floodFill is applied to as a pure function
FillCols == 3
\* largest width of the one- and two-row grids recalculateShoppingList is
\* applied to as a pure function
ListCols == 3

\* largest baseplate size offered by the config panel
MaxSize == 2
\* uploads answered with a mosaic that are explored
MaxGenerations == 2
\* handlers run on the heap of grid objects
MaxHeapOps == 4
\* longest palette handed to the color matcher
MaxPalette == 3

\* ------------------------------------------------------- program constants
MAX_HISTORY_SIZE == 50

\* null / undefined: the absent grid, the absent color, the absent call
Null == <<>>
NoColor == [none |-> TRUE]
NoCall == [none |-> TRUE]
NoMosaic == [none |-> TRUE]
NoError == [none |-> TRUE]
NoFile == [none |-> TRUE]
NoHeap == [none |-> TRUE]

\* ------------------------------------------------------------------ types
\* LegoColor of the palette; ids are unique within a palette.
LegoColor(i) ==
  [id |-> i, name |-> <<"name", i>>, rgb |-> <<"rgb", i>>, hex |-> <<"hex", i>>,
   pickABrickAvailable |-> TRUE]

availableColors == {LegoColor(i) : i \in 1..NColors}

\* the two-color palette of the sessions explored under free user input
brushColors == {LegoColor(1), LegoColor(2)}

\* MosaicGridCell written from a color (the object literal of handleColorSelect
\* and floodFill).
CellOf(color) ==
  [colorId |-> color.id, colorName |-> color.name, rgb |-> color.rgb, hex |-> color.hex]

GridsOf(nr, nc, colors) ==
  [0..(nr - 1) -> [0..(nc - 1) -> {CellOf(c) : c \in colors}]]

\* the grids MosaicEditor can be mounted with
InputGrids == GridsOf(1, Cols, brushColors)

NumRows(grid) == Cardinality(DOMAIN grid)
NumCols(grid) == Cardinality(DOMAIN grid[0])

Cells(grid) == {<<r, c>> : r \in DOMAIN grid, c \in DOMAIN grid[0]}

\* the cells the rendered EditableGrid offers to the mouse
GridCells == {0} \X (0..(Cols - 1))

\* `${row}-${col}`: the key of a cell; on the non-negative coordinates that are
\* ever stored, the key determines the pair, and ParseKey is split('-').map(Number).
CellKey(row, col) == <<"key", row, col>>
ParseKey(key) == <<key[2], key[3]>>

\* ------------------------------------------------------------ gridUtils.ts
deepCopyGrid(grid) ==
  [r \in DOMAIN grid |->
     [c \in DOMAIN grid[r] |->
        [colorId |-> grid[r][c].colorId, colorName |-> grid[r][c].colorName,
         rgb |-> grid[r][c].rgb, hex |-> grid[r][c].hex]]]

\* the traversal without the left neighbor
RECURSIVE floodLoopNoLeft(_, _, _, _, _, _)
floodLoopNoLeft(grid, originalColor, newColor, newGrid, queue, visited) ==
  IF queue = <<>> THEN newGrid
  ELSE
    LET row == Head(queue)[1]
        col == Head(queue)[2]
        rest == Tail(queue)
        key == CellKey(row, col)
    IN  IF key \in visited
          THEN floodLoopNoLeft(grid, originalColor, newColor, newGrid, rest, visited)
        ELSE IF row < 0 \/ row >= NumRows(grid) \/ col < 0 \/ col >= NumCols(grid)
          THEN floodLoopNoLeft(grid, originalColor, newColor, newGrid, rest, visited)
        ELSE IF grid[row][col].colorId # originalColor
          THEN floodLoopNoLeft(grid, originalColor, newColor, newGrid, rest, visited)
        ELSE floodLoopNoLeft(grid, originalColor, newColor,
                       [newGrid EXCEPT ![row][col] = CellOf(newColor)],
                       rest \o << <<row - 1, col>>, <<row + 1, col>>,
                                  <<row, col + 1>> >>,
                       visited \cup {key})

RECURSIVE floodLoop(_, _, _, _, _, _)
floodLoop(grid, originalColor, newColor, newGrid, queue, visited) ==
  IF queue = <<>> THEN newGrid
  ELSE
    LET row == Head(queue)[1]
        col == Head(queue)[2]
        rest == Tail(queue)
        key == CellKey(row, col)
    IN  IF key \in visited
          THEN floodLoop(grid, originalColor, newColor, newGrid, rest, visited)
        ELSE IF row < 0 \/ row >= NumRows(grid) \/ col < 0 \/ col >= NumCols(grid)
          THEN floodLoop(grid, originalColor, newColor, newGrid, rest, visited)
        ELSE IF grid[row][col].colorId # originalColor
          THEN floodLoop(grid, originalColor, newColor, newGrid, rest, visited)
        ELSE floodLoop(grid, originalColor, newColor,
                       [newGrid EXCEPT ![row][col] = CellOf(newColor)],
                       rest \o << <<row - 1, col>>, <<row + 1, col>>,
                                  <<row, col - 1>>, <<row, col + 1>> >>,
                       visited \cup {key})

\* floodFill without the early return for an unchanged color
floodFillAlwaysCopies(grid, startRow, startCol, newColor) ==
  LET originalColor == grid[startRow][startCol].colorId
  IN  [ref |-> "fresh",
       grid |-> IF originalColor = newColor.id
                  THEN deepCopyGrid(grid)
                  ELSE floodLoop(grid, originalColor, newColor, deepCopyGrid(grid),
                                 << <<startRow, startCol>> >>, {})]

\* floodFill returns its argument itself when the start cell already has the
\* new color and a fresh grid otherwise; `ref` records which, because applyFill
\* compares the result with editedGrid by reference.
\* The start cell is read first, with no test of the coordinates: outside the
\* arrays the element is undefined and the property read throws a TypeError.
floodFill(grid, startRow, startCol, newColor) ==
  IF startRow \notin DOMAIN grid \/ startCol \notin DOMAIN grid[startRow]
    THEN [ref |-> "thrown", error |-> "TypeError"]
  ELSE
  LET originalColor == grid[startRow][startCol].colorId
  IN  IF originalColor = newColor.id
        THEN [ref |-> "input", grid |-> grid]
        ELSE [ref |-> "fresh",
              grid |-> floodLoop(grid, originalColor, newColor, deepCopyGrid(grid),
                                 << <<startRow, startCol>> >>, {})]

\* the coordinates the traversal assigns in newGrid, in the order of the
\* assignments
RECURSIVE floodWrites(_, _, _, _)
floodWrites(grid, originalColor, queue, visited) ==
  IF queue = <<>> THEN <<>>
  ELSE
    LET row == Head(queue)[1]
        col == Head(queue)[2]
        rest == Tail(queue)
        key == CellKey(row, col)
    IN  IF key \in visited
          THEN floodWrites(grid, originalColor, rest, visited)
        ELSE IF row < 0 \/ row >= NumRows(grid) \/ col < 0 \/ col >= NumCols(grid)
          THEN floodWrites(grid, originalColor, rest, visited)
        ELSE IF grid[row][col].colorId # originalColor
          THEN floodWrites(grid, originalColor, rest, visited)
        ELSE << <<row, col>> >> \o
             floodWrites(grid, originalColor,
                         rest \o << <<row - 1, col>>, <<row + 1, col>>,
                                    <<row, col - 1>>, <<row, col + 1>> >>,
                         visited \cup {key})

\* grid.flat(): the cells in row-major order
RECURSIVE FlatFrom(_, _, _)
FlatFrom(grid, r, c) ==
  IF r >= NumRows(grid) THEN <<>>
  ELSE IF c >= NumCols(grid) THEN FlatFrom(grid, r + 1, 0)
  ELSE <<grid[r][c]>> \o FlatFrom(grid, r, c + 1)

Flat(grid) == FlatFrom(grid, 0, 0)

\* the count loop without the increment of an existing item
RECURSIVE CountColorsNoIncrement(_, _)
CountColorsNoIncrement(cells, colorCounts) ==
  IF cells = <<>> THEN colorCounts
  ELSE
    LET cell == Head(cells)
        hit == {i \in 1..Len(colorCounts) : colorCounts[i].colorId = cell.colorId}
    IN  IF hit # {}
          THEN CountColorsNoIncrement(Tail(cells), colorCounts)
          ELSE CountColorsNoIncrement(Tail(cells),
                 Append(colorCounts,
                        [colorId |-> cell.colorId, colorName |-> cell.colorName,
                         rgb |-> cell.rgb, hex |-> cell.hex, quantity |-> 1]))

\* the count loop that adds an item for every cell
RECURSIVE CountColorsNoGrouping(_, _)
CountColorsNoGrouping(cells, colorCounts) ==
  IF cells = <<>> THEN colorCounts
  ELSE
    LET cell == Head(cells)
    IN  CountColorsNoGrouping(Tail(cells),
          Append(colorCounts,
                 [colorId |-> cell.colorId, colorName |-> cell.colorName,
                  rgb |-> cell.rgb, hex |-> cell.hex, quantity |-> 1]))

\* the forEach over the cells: colorCounts is the Map, kept in insertion order
RECURSIVE CountColors(_, _)
CountColors(cells, colorCounts) ==
  IF cells = <<>> THEN colorCounts
  ELSE
    LET cell == Head(cells)
        hit == {i \in 1..Len(colorCounts) : colorCounts[i].colorId = cell.colorId}
    IN  IF hit # {}
          THEN LET i == CHOOSE j \in hit : TRUE
               IN  CountColors(Tail(cells),
                     [colorCounts EXCEPT ![i].quantity = colorCounts[i].quantity + 1])
          ELSE CountColors(Tail(cells),
                 Append(colorCounts,
                        [colorId |-> cell.colorId, colorName |-> cell.colorName,
                         rgb |-> cell.rgb, hex |-> cell.hex, quantity |-> 1]))

\* a sort that puts an item before the items of equal quantity
RECURSIVE InsertByQuantityUnstable(_, _)
InsertByQuantityUnstable(sorted, item) ==
  IF sorted = <<>> THEN <<item>>
  ELSE IF Head(sorted).quantity > item.quantity
    THEN <<Head(sorted)>> \o InsertByQuantityUnstable(Tail(sorted), item)
    ELSE <<item>> \o sorted

\* Array.prototype.sort((a, b) => b.quantity - a.quantity): stable, descending
RECURSIVE InsertByQuantity(_, _)
InsertByQuantity(sorted, item) ==
  IF sorted = <<>> THEN <<item>>
  ELSE IF Head(sorted).quantity >= item.quantity
    THEN <<Head(sorted)>> \o InsertByQuantity(Tail(sorted), item)
    ELSE <<item>> \o sorted

RECURSIVE SortByQuantity(_, _)
SortByQuantity(items, sorted) ==
  IF items = <<>> THEN sorted
  ELSE SortByQuantity(Tail(items), InsertByQuantity(sorted, Head(items)))

recalculateShoppingList(grid) == SortByQuantity(CountColors(Flat(grid), <<>>), <<>>)

\* ------------------------------------------------------------------ state
VARIABLES
  isEditing,      \* useMosaicEditor state
  editedGrid,
  originalGrid,
  selectedColor,
  currentTool,
  selectedCells,
  isPainting,
  history,
  historyIndex,
  lastOp,         \* the handler that ran last, with its arguments
  pre,            \* editedGrid, historyIndex, history length before an edit,
                  \* undo, redo or reset (cleared by the other handlers)
  nEdits,         \* history pushes since the history was last seeded
  fillArgs,       \* inputs of a direct call of floodFill
  fillResult,     \* its result
  listArgs,       \* input of a direct call of recalculateShoppingList
  listResult,     \* its result
  mosaicData,     \* MosaicProvider state
  tabsIsEditing,  \* ResultsTabs state isEditing
  enteredGrid,    \* the grid the running session was entered with
  enteredMosaic,  \* mosaicData when the editor was last opened
  config,         \* MosaicProvider state: the baseplate size of the config
  isLoading,
  error,
  uploadedFile,
  pending,        \* the upload request in flight
  server,         \* the mosaics the server holds, by sessionId
  hp,             \* arrays of the edit session as objects of a heap
  matchArgs,      \* inputs of a direct call of nearest
  matchResult     \* its result

hook == <<isEditing, editedGrid, originalGrid, selectedColor, currentTool,
          selectedCells, isPainting, history, historyIndex>>
vars == <<isEditing, editedGrid, originalGrid, selectedColor, currentTool,
          selectedCells, isPainting, history, historyIndex, lastOp, pre, nEdits,
          fillArgs, fillResult, listArgs, listResult, mosaicData, tabsIsEditing,
          enteredGrid, enteredMosaic, config, isLoading, error, uploadedFile,
          pending, server, hp, matchArgs, matchResult>>

\* the rest of the MosaicProvider state, the server, and the state of the
\* separate explorations
others == <<config, isLoading, error, uploadedFile, pending, server, hp, matchArgs,
          matchResult>>

\* the state outside the hook that the handlers of the hook leave alone
outside == <<fillArgs, fillResult, listArgs, listResult, mosaicData, tabsIsEditing,
             enteredMosaic, others>>

\* canUndo that also holds at the first entry
canUndoAtFirst == historyIndex >= 0

canUndo == historyIndex > 0
canRedo == historyIndex < Len(history) - 1

\* history[i] of the source: undefined outside the array
HistoryAt(i) == IF i >= 0 /\ i < Len(history) THEN history[i + 1] ELSE Null

Snapshot ==
  [grid |-> editedGrid, index |-> historyIndex, len |-> Len(history),
   first |-> HistoryAt(0)]
NoSnapshot == [grid |-> Null, index |-> -1, len |-> 0, first |-> Null]

\* the handler that runs, its arguments, whether it took effect
Log(op, args, acted, snapshot) ==
  /\ lastOp' = [op |-> op, args |-> args, acted |-> acted]
  /\ pre' = snapshot

\* bookkeeping of a handler that edits or moves in the history
Record(op, args, acted) ==
  /\ Log(op, args, acted, Snapshot)
  /\ UNCHANGED <<outside, enteredGrid>>

\* bookkeeping of the other handlers
Note(op) ==
  /\ Log(op, <<>>, TRUE, NoSnapshot)
  /\ UNCHANGED <<outside, enteredGrid>>

InitHook ==
  /\ isEditing = FALSE
  /\ editedGrid = Null
  /\ originalGrid = Null
  /\ selectedColor = NoColor
  /\ currentTool = "brush"
  /\ selectedCells = {}
  /\ isPainting = FALSE
  /\ history = <<>>
  /\ historyIndex = -1
  /\ lastOp = [op |-> "init", args |-> <<>>, acted |-> TRUE]
  /\ pre = NoSnapshot
  /\ nEdits = 0
  /\ enteredGrid = Null

\* the defaults of MosaicProvider, nothing in flight, an empty server
InitProvider ==
  /\ config = 1
  /\ isLoading = FALSE
  /\ error = NoError
  /\ uploadedFile = NoFile
  /\ pending = NoCall
  /\ server = <<>>

InitRest ==
  /\ InitProvider
  /\ hp = NoHeap
  /\ matchArgs = NoCall
  /\ matchResult = NoCall

\* no direct call of a pure function, no mosaic generated
InitOutside ==
  /\ fillArgs = NoCall
  /\ fillResult = NoCall
  /\ listArgs = NoCall
  /\ listResult = NoCall
  /\ mosaicData = NoMosaic
  /\ tabsIsEditing = FALSE
  /\ enteredMosaic = NoMosaic
  /\ InitRest

Init == InitHook /\ InitOutside

\* whether the handler is about to push a history entry
ColorSelectPushes == Cardinality(selectedCells) > 0 /\ editedGrid # Null

FillPushes(row, col) ==
  /\ editedGrid # Null
  /\ selectedColor # NoColor
  /\ floodFill(editedGrid, row, col, selectedColor).ref # "input"

\* ------------------------------------------------------- useMosaicEditor
\* the state updates of enterEditMode(grid)
enterEditMode(grid) ==
  LET gridCopy == deepCopyGrid(grid)
  IN  /\ originalGrid' = gridCopy
      /\ editedGrid' = gridCopy
      /\ history' = <<gridCopy>>
      /\ historyIndex' = 0
      /\ isEditing' = TRUE
      /\ selectedCells' = {}
      /\ currentTool' = "brush"
      /\ UNCHANGED <<selectedColor, isPainting>>

EnterEditMode(grid) ==
  /\ enterEditMode(grid)
  /\ nEdits' = 0
  /\ enteredGrid' = grid
  /\ Log("enterEditMode", <<>>, TRUE, NoSnapshot)
  /\ UNCHANGED outside

\* the state updates of exitEditMode()
exitEditMode ==
  /\ isEditing' = FALSE
  /\ editedGrid' = Null
  /\ originalGrid' = Null
  /\ selectedColor' = NoColor
  /\ selectedCells' = {}
  /\ isPainting' = FALSE
  /\ history' = <<>>
  /\ historyIndex' = -1
  /\ UNCHANGED currentTool

ExitEditMode ==
  /\ exitEditMode
  /\ nEdits' = 0
  /\ enteredGrid' = Null
  /\ Log("exitEditMode", <<>>, TRUE, NoSnapshot)
  /\ UNCHANGED outside

\* addToHistory without the size limit
addToHistoryUnbounded(grid) ==
  LET newHistory == Append(SubSeq(history, 1, historyIndex + 1), deepCopyGrid(grid))
  IN  [history |-> newHistory, historyIndex |-> Len(newHistory) - 1]

\* addToHistory that keeps the entries after the cursor
addToHistoryNoTruncate(grid) ==
  LET newHistory == Append(history, deepCopyGrid(grid))
  IN  IF Len(newHistory) > MAX_HISTORY_SIZE
        THEN [history |-> Tail(newHistory), historyIndex |-> historyIndex - 1]
        ELSE [history |-> newHistory, historyIndex |-> Len(newHistory) - 1]

\* addToHistory(grid): the new history and the new historyIndex.  The updater
\* slices at the historyIndex the callback closed over; on overflow it drops the
\* first entry and decrements the current historyIndex.
addToHistory(grid) ==
  LET newHistory == Append(SubSeq(history, 1, historyIndex + 1), deepCopyGrid(grid))
  IN  IF Len(newHistory) > MAX_HISTORY_SIZE
        THEN [history |-> Tail(newHistory), historyIndex |-> historyIndex - 1]
        ELSE [history |-> newHistory, historyIndex |-> Len(newHistory) - 1]

SetSelectedColor(color) ==
  /\ selectedColor' = color
  /\ Note("setSelectedColor")
  /\ UNCHANGED <<isEditing, editedGrid, originalGrid, currentTool, selectedCells,
                 isPainting, history, historyIndex, nEdits>>

SetCurrentTool(tool) ==
  /\ currentTool' = tool
  /\ Note("setCurrentTool")
  /\ UNCHANGED <<isEditing, editedGrid, originalGrid, selectedColor, selectedCells,
                 isPainting, history, historyIndex, nEdits>>

startPainting(row, col) ==
  /\ isPainting' = TRUE
  /\ selectedCells' = {CellKey(row, col)}

continuePainting(row, col) ==
  IF ~isPainting
    THEN UNCHANGED <<selectedCells>>
    ELSE selectedCells' = selectedCells \cup {CellKey(row, col)}

StopPainting ==
  /\ isPainting' = FALSE
  /\ Note("stopPainting")
  /\ UNCHANGED <<isEditing, editedGrid, originalGrid, selectedColor, currentTool,
                 selectedCells, history, historyIndex, nEdits>>

ClearSelection ==
  /\ selectedCells' = {}
  /\ isPainting' = FALSE
  /\ Note("clearSelection")
  /\ UNCHANGED <<isEditing, editedGrid, originalGrid, selectedColor, currentTool,
                 history, historyIndex, nEdits>>

ApplyFill(row, col) ==
  /\ Record("applyFill", <<row, col>>, FillPushes(row, col))
  /\ UNCHANGED <<isEditing, originalGrid, selectedColor, currentTool, selectedCells,
                 isPainting>>
  /\ IF editedGrid = Null \/ selectedColor = NoColor
       THEN UNCHANGED <<editedGrid, history, historyIndex, nEdits>>
       ELSE LET newGrid == floodFill(editedGrid, row, col, selectedColor)
            IN  IF newGrid.ref # "input"
                  THEN /\ editedGrid' = newGrid.grid
                       /\ history' = addToHistory(newGrid.grid).history
                       /\ historyIndex' = addToHistory(newGrid.grid).historyIndex
                       /\ nEdits' = nEdits + 1
                  ELSE UNCHANGED <<editedGrid, history, historyIndex, nEdits>>

Undo ==
  /\ Record("undo", <<>>, canUndo /\ Len(history) > 0)
  /\ UNCHANGED <<isEditing, originalGrid, selectedColor, currentTool, selectedCells,
                 isPainting, history, nEdits>>
  /\ IF canUndo /\ Len(history) > 0
       THEN LET newIndex == historyIndex - 1
            IN  /\ historyIndex' = newIndex
                /\ IF HistoryAt(newIndex) # Null
                     THEN editedGrid' = deepCopyGrid(HistoryAt(newIndex))
                     ELSE UNCHANGED editedGrid
       ELSE UNCHANGED <<editedGrid, historyIndex>>

Redo ==
  /\ Record("redo", <<>>, canRedo /\ Len(history) > 0)
  /\ UNCHANGED <<isEditing, originalGrid, selectedColor, currentTool, selectedCells,
                 isPainting, history, nEdits>>
  /\ IF canRedo /\ Len(history) > 0
       THEN LET newIndex == historyIndex + 1
            IN  /\ historyIndex' = newIndex
                /\ IF HistoryAt(newIndex) # Null
                     THEN editedGrid' = deepCopyGrid(HistoryAt(newIndex))
                     ELSE UNCHANGED editedGrid
       ELSE UNCHANGED <<editedGrid, historyIndex>>

\* a reset to the oldest history entry instead of originalGrid
ResetToFirstEntry ==
  /\ Record("resetToOriginal", <<>>, originalGrid # Null)
  /\ UNCHANGED <<isEditing, originalGrid, selectedColor, currentTool, isPainting>>
  /\ IF originalGrid = Null
       THEN UNCHANGED <<editedGrid, history, historyIndex, selectedCells, nEdits>>
       ELSE LET gridCopy == deepCopyGrid(HistoryAt(0))
            IN  /\ editedGrid' = gridCopy
                /\ history' = <<gridCopy>>
                /\ historyIndex' = 0
                /\ selectedCells' = {}
                /\ nEdits' = 0

ResetToOriginal ==
  /\ Record("resetToOriginal", <<>>, originalGrid # Null)
  /\ UNCHANGED <<isEditing, originalGrid, selectedColor, currentTool, isPainting>>
  /\ IF originalGrid = Null
       THEN UNCHANGED <<editedGrid, history, historyIndex, selectedCells, nEdits>>
       ELSE LET gridCopy == deepCopyGrid(originalGrid)
            IN  /\ editedGrid' = gridCopy
                /\ history' = <<gridCopy>>
                /\ historyIndex' = 0
                /\ selectedCells' = {}
                /\ nEdits' = 0

\* applyColorToSelectedCells that keeps the selection
applyColorKeepsSelection(newGrid) ==
  /\ editedGrid' = newGrid
  /\ history' = addToHistory(newGrid).history
  /\ historyIndex' = addToHistory(newGrid).historyIndex
  /\ UNCHANGED selectedCells

\* applyColorToSelectedCells(newGrid)
applyColorToSelectedCells(newGrid) ==
  /\ editedGrid' = newGrid
  /\ history' = addToHistory(newGrid).history
  /\ historyIndex' = addToHistory(newGrid).historyIndex
  /\ selectedCells' = {}

\* ----------------------------------------------------------- MosaicEditor
HandleCellMouseDown(row, col) ==
  /\ Note("cellMouseDown")
  /\ UNCHANGED <<isEditing, editedGrid, originalGrid, selectedColor, currentTool,
                 history, historyIndex, nEdits>>
  /\ IF currentTool = "brush"
       THEN startPainting(row, col)
       ELSE UNCHANGED <<isPainting, selectedCells>>

HandleCellMouseEnter(row, col) ==
  /\ Note("cellMouseEnter")
  /\ UNCHANGED <<isEditing, editedGrid, originalGrid, selectedColor, currentTool,
                 isPainting, history, historyIndex, nEdits>>
  /\ IF currentTool = "brush"
       THEN continuePainting(row, col)
       ELSE UNCHANGED selectedCells

\* the grid of a handler that overwrites only the colorId of a selected cell
PaintedGridIdOnly(grid, cells, color) ==
  [r \in DOMAIN grid |->
     [c \in DOMAIN grid[r] |->
        IF \E key \in cells :
             /\ ParseKey(key) = <<r, c>>
             /\ r >= 0 /\ r < NumRows(grid) /\ c >= 0 /\ c < NumCols(grid)
          THEN [grid[r][c] EXCEPT !.colorId = color.id]
          ELSE grid[r][c]]]

\* the grid handleColorSelect builds: a copy of the rows in which every selected
\* cell that lies inside the grid is overwritten from the color
PaintedGrid(grid, cells, color) ==
  [r \in DOMAIN grid |->
     [c \in DOMAIN grid[r] |->
        IF \E key \in cells :
             /\ ParseKey(key) = <<r, c>>
             /\ r >= 0 /\ r < NumRows(grid) /\ c >= 0 /\ c < NumCols(grid)
          THEN CellOf(color)
          ELSE grid[r][c]]]

\* handleColorSelect without the test of the selection size
HandleColorSelectNoGuard(color) ==
  /\ Record("colorSelect", <<color.id>>, ColorSelectPushes)
  /\ UNCHANGED <<isEditing, originalGrid, selectedColor, currentTool, isPainting>>
  /\ IF editedGrid # Null
       THEN /\ applyColorToSelectedCells(PaintedGrid(editedGrid, selectedCells, color))
            /\ nEdits' = nEdits + 1
       ELSE UNCHANGED <<editedGrid, history, historyIndex, selectedCells, nEdits>>

HandleColorSelect(color) ==
  /\ Record("colorSelect", <<color.id>>, ColorSelectPushes)
  /\ UNCHANGED <<isEditing, originalGrid, selectedColor, currentTool, isPainting>>
  /\ IF Cardinality(selectedCells) > 0 /\ editedGrid # Null
       THEN /\ applyColorToSelectedCells(PaintedGrid(editedGrid, selectedCells, color))
            /\ nEdits' = nEdits + 1
       ELSE UNCHANGED <<editedGrid, history, historyIndex, selectedCells, nEdits>>

\* the region search without the left neighbor
RECURSIVE connectLoopNoLeft(_, _, _, _, _)
connectLoopNoLeft(grid, originalColor, connectedCells, queue, visited) ==
  IF queue = <<>> THEN connectedCells
  ELSE
    LET r == Head(queue)[1]
        c == Head(queue)[2]
        rest == Tail(queue)
        key == CellKey(r, c)
    IN  IF key \in visited
          THEN connectLoopNoLeft(grid, originalColor, connectedCells, rest, visited)
        ELSE IF r < 0 \/ r >= NumRows(grid) \/ c < 0 \/ c >= NumCols(grid)
          THEN connectLoopNoLeft(grid, originalColor, connectedCells, rest, visited)
        ELSE IF grid[r][c].colorId # originalColor
          THEN connectLoopNoLeft(grid, originalColor, connectedCells, rest, visited)
        ELSE connectLoopNoLeft(grid, originalColor, connectedCells \cup {key},
                               rest \o << <<r - 1, c>>, <<r + 1, c>>, <<r, c + 1>> >>,
                               visited \cup {key})

\* the region search of handleCellClick (fill tool)
RECURSIVE connectLoop(_, _, _, _, _)
connectLoop(grid, originalColor, connectedCells, queue, visited) ==
  IF queue = <<>> THEN connectedCells
  ELSE
    LET r == Head(queue)[1]
        c == Head(queue)[2]
        rest == Tail(queue)
        key == CellKey(r, c)
    IN  IF key \in visited
          THEN connectLoop(grid, originalColor, connectedCells, rest, visited)
        ELSE IF r < 0 \/ r >= NumRows(grid) \/ c < 0 \/ c >= NumCols(grid)
          THEN connectLoop(grid, originalColor, connectedCells, rest, visited)
        ELSE IF grid[r][c].colorId # originalColor
          THEN connectLoop(grid, originalColor, connectedCells, rest, visited)
        ELSE connectLoop(grid, originalColor, connectedCells \cup {key},
                         rest \o << <<r - 1, c>>, <<r + 1, c>>,
                                    <<r, c - 1>>, <<r, c + 1>> >>,
                         visited \cup {key})

\* startPainting, continuePainting for every connected cell and stopPainting are
\* issued from one event: every continuePainting tests the isPainting of the
\* render the handler was created in.
HandleCellClick(row, col) ==
  /\ Log("cellClick", <<row, col>>, TRUE, NoSnapshot)
  /\ UNCHANGED <<outside, enteredGrid>>
  /\ UNCHANGED <<isEditing, editedGrid, originalGrid, selectedColor, currentTool,
                 history, historyIndex, nEdits>>
  /\ IF currentTool = "fill" /\ editedGrid # Null
       THEN LET connectedCells ==
                  connectLoop(editedGrid, editedGrid[row][col].colorId, {},
                              << <<row, col>> >>, {})
            IN  /\ selectedCells' = IF ~isPainting
                                      THEN {CellKey(row, col)}
                                      ELSE {CellKey(row, col)} \cup connectedCells
                /\ isPainting' = FALSE
       ELSE UNCHANGED <<isPainting, selectedCells>>

\* ---------------------------------------------------------- canvasUtils
\* the canvas drawn from the grid: one square of cell.hex per cell
generatePreviewFromGrid(grid) ==
  <<"png", [r \in DOMAIN grid |-> [c \in DOMAIN grid[r] |-> grid[r][c].hex]]>>

\* ------------------------------------------------------- MosaicProvider
\* MosaicData of an upload response for the grid
MosaicResponse(grid) ==
  [sessionId |-> "session",
   previewUrl |-> <<"upload-preview">>,
   grid |-> grid,
   shoppingList |-> recalculateShoppingList(grid),
   metadata |-> [baseplateSize |-> NumCols(grid),
                 pieceType |-> "square",
                 totalPieces |-> NumRows(grid) * NumCols(grid),
                 uniqueColors |-> Len(recalculateShoppingList(grid)),
                 createdAt |-> "created"]]

\* the state updates of updateMosaicGrid(newGrid, newShoppingList)
updateMosaicGrid(newGrid, newShoppingList) ==
  IF mosaicData = NoMosaic
    THEN UNCHANGED mosaicData
    ELSE mosaicData' =
           [mosaicData EXCEPT
              !.grid = newGrid,
              !.shoppingList = newShoppingList,
              !.previewUrl = generatePreviewFromGrid(newGrid),
              !.metadata = [mosaicData.metadata EXCEPT
                              !.uniqueColors = Len(newShoppingList)]]

\* the baseplate sizes of the config panel, scaled to 1..MaxSize
BASEPLATE_SIZES == 1..MaxSize

File == [name |-> "image"]

\* the grid the server computes for an upload with the baseplate size
GeneratedGrid(size) ==
  [r \in 0..(size - 1) |->
     [c \in 0..(size - 1) |-> CellOf(LegoColor(((r + c) % 2) + 1))]]

\* response.mosaic of a successful upload
UploadResponse(sessionId, size) ==
  [MosaicResponse(GeneratedGrid(size)) EXCEPT !.sessionId = sessionId]

\* the hook of a MosaicEditor that is not mounted: its initial state
hookUnmounted ==
  /\ isEditing' = FALSE
  /\ editedGrid' = Null
  /\ originalGrid' = Null
  /\ selectedColor' = NoColor
  /\ currentTool' = "brush"
  /\ selectedCells' = {}
  /\ isPainting' = FALSE
  /\ history' = <<>>
  /\ historyIndex' = -1

SetConfig(size) ==
  /\ ~isLoading
  /\ config' = size
  /\ Log("setConfig", <<size>>, TRUE, NoSnapshot)
  /\ UNCHANGED <<hook, nEdits, enteredGrid, fillArgs, fillResult, listArgs,
                 listResult, mosaicData, tabsIsEditing, enteredMosaic, isLoading,
                 error, uploadedFile, pending, server, hp, matchArgs, matchResult>>

\* onDrop of the dropzone, rendered while no file is held
SetUploadedFile ==
  /\ uploadedFile = NoFile
  /\ uploadedFile' = File
  /\ Log("setUploadedFile", <<>>, TRUE, NoSnapshot)
  /\ UNCHANGED <<hook, nEdits, enteredGrid, fillArgs, fillResult, listArgs,
                 listResult, mosaicData, tabsIsEditing, enteredMosaic, config,
                 isLoading, error, pending, server, hp, matchArgs, matchResult>>

\* handleGenerate: generateMosaic(uploadedFile) up to the await of the upload
HandleGenerate ==
  /\ uploadedFile # NoFile
  /\ ~isLoading
  /\ isLoading' = TRUE
  /\ error' = NoError
  /\ pending' = [file |-> uploadedFile, config |-> config]
  /\ Log("generate", <<>>, TRUE, NoSnapshot)
  /\ UNCHANGED <<hook, nEdits, enteredGrid, fillArgs, fillResult, listArgs,
                 listResult, mosaicData, tabsIsEditing, enteredMosaic, config,
                 uploadedFile, server, hp, matchArgs, matchResult>>

\* generateMosaic after the await: the upload succeeded. A ResultsTabs that
\* still has isEditing set and showed the placeholder mounts a new editor.
UploadResolves ==
  /\ pending # NoCall
  /\ LET response == UploadResponse(Len(server) + 1, pending.config)
     IN  /\ server' = Append(server, response.grid)
         /\ mosaicData' = response
         /\ uploadedFile' = pending.file
         /\ isLoading' = FALSE
         /\ pending' = NoCall
         /\ Log("uploadResolves", <<mosaicData>>, TRUE, NoSnapshot)
         /\ IF tabsIsEditing /\ mosaicData = NoMosaic
              THEN /\ enterEditMode(response.grid)
                   /\ nEdits' = 0
                   /\ enteredGrid' = response.grid
                   /\ enteredMosaic' = response
              ELSE UNCHANGED <<hook, nEdits, enteredGrid, enteredMosaic>>
  /\ UNCHANGED <<fillArgs, fillResult, listArgs, listResult, tabsIsEditing, config,
                 error, hp, matchArgs, matchResult>>

\* the failure that leaves the state as the code leaves it, but drops the
\* mosaic held
UploadRejectsDropsMosaic ==
  /\ pending # NoCall
  /\ error' = [message |-> "Upload failed"]
  /\ isLoading' = FALSE
  /\ pending' = NoCall
  /\ mosaicData' = NoMosaic
  /\ Log("uploadRejects", <<mosaicData>>, TRUE, NoSnapshot)
  /\ UNCHANGED <<hook, nEdits, enteredGrid, fillArgs, fillResult, listArgs,
                 listResult, tabsIsEditing, enteredMosaic, config,
                 uploadedFile, server, hp, matchArgs, matchResult>>

\* generateMosaic after the await: the upload threw
UploadRejects ==
  /\ pending # NoCall
  /\ error' = [message |-> "Upload failed"]
  /\ isLoading' = FALSE
  /\ pending' = NoCall
  /\ Log("uploadRejects", <<mosaicData>>, TRUE, NoSnapshot)
  /\ UNCHANGED <<hook, nEdits, enteredGrid, fillArgs, fillResult, listArgs,
                 listResult, mosaicData, tabsIsEditing, enteredMosaic, config,
                 uploadedFile, server, hp, matchArgs, matchResult>>

\* the state updates of clearMosaic(); ResultsTabs then shows the placeholder
\* and an editor that was shown is unmounted
clearMosaic ==
  /\ mosaicData' = NoMosaic
  /\ uploadedFile' = NoFile
  /\ error' = NoError
  /\ IF tabsIsEditing /\ mosaicData # NoMosaic
       THEN hookUnmounted /\ nEdits' = 0 /\ enteredGrid' = Null
       ELSE UNCHANGED <<hook, nEdits, enteredGrid>>

\* ImageUpload.handleClear: the remove button next to the held file
HandleClear ==
  /\ uploadedFile # NoFile
  /\ clearMosaic
  /\ Log("clear", <<>>, TRUE, NoSnapshot)
  /\ UNCHANGED <<fillArgs, fillResult, listArgs, listResult, tabsIsEditing,
                 enteredMosaic, config, isLoading, pending, server, hp,
                 matchArgs, matchResult>>

\* ConfigPanel.handleReset: the reset button, disabled while loading
HandleReset ==
  /\ ~isLoading
  /\ clearMosaic
  /\ Log("reset", <<>>, TRUE, NoSnapshot)
  /\ UNCHANGED <<fillArgs, fillResult, listArgs, listResult, tabsIsEditing,
                 enteredMosaic, config, isLoading, pending, server, hp,
                 matchArgs, matchResult>>

\* handleExport: the server answers GET /export/{sessionId}/{type} from the
\* mosaic it holds for the session; lastOp.args is the type and the grid and
\* list the file was produced from
HandleExport(type) ==
  /\ mosaicData # NoMosaic
  /\ mosaicData.sessionId \in DOMAIN server
  /\ LET held == server[mosaicData.sessionId]
     IN  Log("export", <<type, held, recalculateShoppingList(held)>>, TRUE, NoSnapshot)
  /\ UNCHANGED <<hook, nEdits, outside, enteredGrid>>

\* ----------------------------------------------------------- ResultsTabs
\* the Edit button is rendered while the editor is not shown; it shows the
\* editor, whose mount effect enters edit mode with mosaicData.grid on a hook
\* in its initial state
HandleEditMosaic ==
  /\ mosaicData # NoMosaic
  /\ ~tabsIsEditing
  /\ tabsIsEditing' = TRUE
  /\ enterEditMode(mosaicData.grid)
  /\ nEdits' = 0
  /\ enteredGrid' = mosaicData.grid
  /\ enteredMosaic' = mosaicData
  /\ Log("editMosaic", <<>>, TRUE, NoSnapshot)
  /\ UNCHANGED <<mosaicData, fillArgs, fillResult, listArgs, listResult, others>>

\* the state updates of handleSaveEdits(newGrid, newShoppingList)
handleSaveEdits(newGrid, newShoppingList) ==
  /\ updateMosaicGrid(newGrid, newShoppingList)
  /\ tabsIsEditing' = FALSE

\* the state updates of handleCancelEdit()
handleCancelEdit == tabsIsEditing' = FALSE

\* ------------------------------------------- MosaicEditor (save, cancel)
\* lastOp.args of a save: the arguments onSave was called with
HandleSave ==
  IF editedGrid = Null
    THEN /\ Log("save", <<>>, FALSE, Snapshot)
         /\ UNCHANGED <<hook, nEdits, outside, enteredGrid>>
    ELSE LET newShoppingList == recalculateShoppingList(editedGrid)
         IN  /\ Log("save", <<editedGrid, newShoppingList>>, TRUE, Snapshot)
             /\ handleSaveEdits(editedGrid, newShoppingList)
             /\ exitEditMode
             /\ nEdits' = 0
             /\ enteredGrid' = Null
             /\ UNCHANGED <<fillArgs, fillResult, listArgs, listResult,
                            enteredMosaic, others>>

\* handleCancel that passes the edited grid on before leaving
HandleCancelSaves ==
  /\ Log("cancel", <<>>, TRUE, Snapshot)
  /\ exitEditMode
  /\ IF editedGrid = Null
       THEN UNCHANGED mosaicData
       ELSE updateMosaicGrid(editedGrid, recalculateShoppingList(editedGrid))
  /\ handleCancelEdit
  /\ nEdits' = 0
  /\ enteredGrid' = Null
  /\ UNCHANGED <<fillArgs, fillResult, listArgs, listResult, enteredMosaic, others>>

HandleCancel ==
  /\ Log("cancel", <<>>, TRUE, Snapshot)
  /\ exitEditMode
  /\ handleCancelEdit
  /\ nEdits' = 0
  /\ enteredGrid' = Null
  /\ UNCHANGED <<mosaicData, fillArgs, fillResult, listArgs, listResult,
                 enteredMosaic, others>>

\* a direct call of gridUtils.floodFill on the drawn inputs
RunFloodFill ==
  /\ fillArgs # NoCall
  /\ fillResult = NoCall
  /\ fillResult' = floodFill(fillArgs.grid, fillArgs.row, fillArgs.col, fillArgs.color)
  /\ UNCHANGED <<hook, lastOp, pre, nEdits, fillArgs, listArgs, listResult,
                 mosaicData, tabsIsEditing, enteredGrid, enteredMosaic, others>>

\* ------------------------------------------------ grids as shared objects
\* The hook and the editor once more, on a heap: a grid is an array of row
\* arrays, several references can hold the same array, and an assignment
\* newGrid[row][col] = cell writes the row array every holder sees.  hp.rowsAt
\* and hp.gridsAt are the arrays by address; the state of the hook holds
\* addresses of grids (0 is null); hp.frozen remembers the contents each grid
\* had when it was pushed, passed to enterEditMode or passed to floodFill.
notHeap ==
  <<hook, lastOp, pre, nEdits, fillArgs, fillResult, listArgs, listResult,
    mosaicData, tabsIsEditing, enteredGrid, enteredMosaic, config, isLoading,
    error, uploadedFile, pending, server, matchArgs, matchResult>>

\* the contents of the grid at an address
GridOf(h, ref) == [r \in DOMAIN h.gridsAt[ref] |-> h.rowsAt[h.gridsAt[ref][r]]]

NewRef(h) == Len(h.gridsAt) + 1

\* a new outer array of new row arrays holding the cells of `grid`
HeapNewGrid(h, grid) ==
  LET base == Len(h.rowsAt)
      nr == NumRows(grid)
  IN  [h EXCEPT !.rowsAt = @ \o [i \in 1..nr |-> grid[i - 1]],
                !.gridsAt = Append(@, [r \in 0..(nr - 1) |-> base + r + 1])]

\* deepCopyGrid: new outer array, new rows, new cells; the copy is at NewRef(h)
heapDeepCopyGrid(h, ref) == HeapNewGrid(h, deepCopyGrid(GridOf(h, ref)))

\* a copy that makes a new outer array of the same row arrays
heapCopyRowsShared(h, ref) == [h EXCEPT !.gridsAt = Append(@, h.gridsAt[ref])]

\* editedGrid.map(row => [...row]): new outer array, new rows, the same cells
heapCopyRows(h, ref) == HeapNewGrid(h, GridOf(h, ref))

\* newGrid[row][col] = {the four fields of color} for every cell of `cells`
heapWriteCells(h, ref, cells, color) ==
  [h EXCEPT !.rowsAt =
     [a \in DOMAIN h.rowsAt |->
        IF \E r \in DOMAIN h.gridsAt[ref] : h.gridsAt[ref][r] = a
          THEN [c \in DOMAIN h.rowsAt[a] |->
                  IF \E r \in DOMAIN h.gridsAt[ref] :
                       h.gridsAt[ref][r] = a /\ <<r, c>> \in cells
                    THEN CellOf(color)
                    ELSE h.rowsAt[a][c]]
          ELSE h.rowsAt[a]]]

Freeze(h, ref) == [h EXCEPT !.frozen = @ \cup {[ref |-> ref, contents |-> GridOf(h, ref)]}]

\* addToHistory(grid): slice, push a deep copy, drop the first entry on overflow
heapAddToHistory(h, ref) ==
  LET h1 == heapDeepCopyGrid(h, ref)
      newHistory == Append(SubSeq(h.history, 1, h.historyIndex + 1), NewRef(h))
  IN  Freeze(IF Len(newHistory) > MAX_HISTORY_SIZE
               THEN [h1 EXCEPT !.history = Tail(newHistory),
                               !.historyIndex = h.historyIndex - 1]
               ELSE [h1 EXCEPT !.history = newHistory,
                               !.historyIndex = Len(newHistory) - 1],
             NewRef(h))

HeapStep(h) ==
  /\ hp.ops < MaxHeapOps
  /\ hp' = [h EXCEPT !.ops = hp.ops + 1]
  /\ UNCHANGED notHeap

\* enterEditMode(mosaicData.grid): one copy becomes the original grid, the
\* current grid and history entry 0
HeapEnterEditMode ==
  /\ hp.editedGrid = 0
  /\ LET h1 == heapDeepCopyGrid(Freeze(hp, hp.mosaicGrid), hp.mosaicGrid)
         gridCopy == NewRef(hp)
     IN  HeapStep(Freeze([h1 EXCEPT !.originalGrid = gridCopy,
                                    !.editedGrid = gridCopy,
                                    !.history = <<gridCopy>>,
                                    !.historyIndex = 0,
                                    !.selectedCells = {}], gridCopy))

heapExitEditMode(h) ==
  [h EXCEPT !.editedGrid = 0, !.originalGrid = 0, !.history = <<>>,
            !.historyIndex = -1, !.selectedCells = {}]

\* handleCancel
HeapCancel ==
  /\ hp.editedGrid # 0
  /\ HeapStep(heapExitEditMode(hp))

\* handleSave: the provider stores the current grid object itself
HeapSave ==
  /\ hp.editedGrid # 0
  /\ HeapStep(heapExitEditMode([hp EXCEPT !.mosaicGrid = hp.editedGrid]))

HeapStartPainting(row, col) ==
  /\ hp.editedGrid # 0
  /\ hp' = [hp EXCEPT !.selectedCells = {<<row, col>>}]
  /\ UNCHANGED notHeap

HeapContinuePainting(row, col) ==
  /\ hp.editedGrid # 0
  /\ hp.selectedCells # {}
  /\ hp' = [hp EXCEPT !.selectedCells = @ \cup {<<row, col>>}]
  /\ UNCHANGED notHeap

\* handleColorSelect, then applyColorToSelectedCells(newGrid)
HeapColorSelect(color) ==
  /\ hp.editedGrid # 0
  /\ hp.selectedCells # {}
  /\ LET newGrid == NewRef(hp)
         h1 == heapWriteCells(heapCopyRows(hp, hp.editedGrid), newGrid,
                              hp.selectedCells, color)
     IN  HeapStep([heapAddToHistory([h1 EXCEPT !.editedGrid = newGrid], newGrid)
                     EXCEPT !.selectedCells = {}])

\* applyFill(row, col): floodFill reads its input grid and writes a deep copy
HeapApplyFill(row, col, color) ==
  /\ hp.editedGrid # 0
  /\ LET grid == GridOf(hp, hp.editedGrid)
         originalColor == grid[row][col].colorId
         h0 == Freeze(hp, hp.editedGrid)
         newGrid == NewRef(hp)
         writes == floodWrites(grid, originalColor, << <<row, col>> >>, {})
         h1 == heapWriteCells(heapDeepCopyGrid(h0, hp.editedGrid), newGrid,
                              {writes[i] : i \in 1..Len(writes)}, color)
     IN  IF originalColor = color.id
           THEN HeapStep(h0)
           ELSE HeapStep(heapAddToHistory([h1 EXCEPT !.editedGrid = newGrid], newGrid))

HeapUndo ==
  /\ hp.historyIndex > 0
  /\ LET newIndex == hp.historyIndex - 1
         h1 == heapDeepCopyGrid(hp, hp.history[newIndex + 1])
     IN  HeapStep([h1 EXCEPT !.historyIndex = newIndex, !.editedGrid = NewRef(hp)])

HeapRedo ==
  /\ hp.historyIndex < Len(hp.history) - 1
  /\ LET newIndex == hp.historyIndex + 1
         h1 == heapDeepCopyGrid(hp, hp.history[newIndex + 1])
     IN  HeapStep([h1 EXCEPT !.historyIndex = newIndex, !.editedGrid = NewRef(hp)])

HeapResetToOriginal ==
  /\ hp.originalGrid # 0
  /\ LET h1 == heapDeepCopyGrid(hp, hp.originalGrid)
         gridCopy == NewRef(hp)
     IN  HeapStep(Freeze([h1 EXCEPT !.editedGrid = gridCopy,
                                    !.history = <<gridCopy>>,
                                    !.historyIndex = 0,
                                    !.selectedCells = {}], gridCopy))

\* ------------------------------------------------- color-distance matcher
\* sRGB triples sampled by the generator and carried by palette colors
SampleRGB ==
  {<<0, 0, 0>>, <<255, 255, 255>>, <<255, 0, 0>>, <<0, 0, 255>>, <<128, 128, 128>>}

\* sRGB -> XYZ -> L*a*b* with D65 reference white, rounded to integers
Lab(rgb) ==
  CASE rgb = <<0, 0, 0>>       -> <<0, 0, 0>>
    [] rgb = <<255, 255, 255>> -> <<100, 0, 0>>
    [] rgb = <<255, 0, 0>>     -> <<53, 80, 67>>
    [] rgb = <<0, 0, 255>>     -> <<32, 79, -108>>
    [] rgb = <<128, 128, 128>> -> <<54, 0, 0>>

\* Delta E (CIE76) is the Euclidean distance in L*a*b*; its square orders the
\* palette entries the same way
DeltaE2(rgb1, rgb2) ==
  LET p == Lab(rgb1)
      q == Lab(rgb2)
  IN  (p[1] - q[1]) * (p[1] - q[1]) + (p[2] - q[2]) * (p[2] - q[2])
        + (p[3] - q[3]) * (p[3] - q[3])

\* palettes: sequences of colors with unique ids, in palette order
PaletteColor == [id : 1..MaxPalette, rgb : SampleRGB]

Palettes ==
  UNION {{p \in [1..n -> PaletteColor] :
            \A i, j \in 1..n : p[i].id = p[j].id => i = j} : n \in 0..MaxPalette}

EmptyPaletteError == [error |-> "EmptyPaletteError"]

\* the scan keeps the latest entry among those at the minimum distance
RECURSIVE nearestFromKeepsLast(_, _, _, _)
nearestFromKeepsLast(pixelRGB, palette, i, best) ==
  IF i > Len(palette) THEN palette[best]
  ELSE IF DeltaE2(pixelRGB, palette[i].rgb) <= DeltaE2(pixelRGB, palette[best].rgb)
       THEN nearestFromKeepsLast(pixelRGB, palette, i + 1, i)
       ELSE nearestFromKeepsLast(pixelRGB, palette, i + 1, best)

\* the scan over the palette in palette order: an entry replaces the best one
\* only when it is strictly nearer
RECURSIVE nearestFrom(_, _, _, _)
nearestFrom(pixelRGB, palette, i, best) ==
  IF i > Len(palette) THEN palette[best]
  ELSE IF DeltaE2(pixelRGB, palette[i].rgb) < DeltaE2(pixelRGB, palette[best].rgb)
       THEN nearestFrom(pixelRGB, palette, i + 1, i)
       ELSE nearestFrom(pixelRGB, palette, i + 1, best)

nearest(pixelRGB, palette) ==
  IF Len(palette) = 0 THEN EmptyPaletteError
  ELSE nearestFrom(pixelRGB, palette, 2, 1)

\* a direct call of nearest on the drawn pixel and palette; a second call
\* repeats it with the same inputs
RunNearest ==
  /\ matchArgs # NoCall
  /\ Len(matchResult) < 2
  /\ matchResult' = Append(matchResult, nearest(matchArgs.pixelRGB, matchArgs.palette))
  /\ UNCHANGED <<hook, lastOp, pre, nEdits, fillArgs, fillResult, listArgs,
                 listResult, mosaicData, tabsIsEditing, enteredGrid, enteredMosaic,
                 config, isLoading, error, uploadedFile, pending, server, hp,
                 matchArgs>>

\* a direct call of gridUtils.recalculateShoppingList on the drawn grid
RunRecalculateShoppingList ==
  /\ listArgs # NoCall
  /\ listResult = NoCall
  /\ listResult' = [list |-> recalculateShoppingList(listArgs.grid)]
  /\ UNCHANGED <<hook, lastOp, pre, nEdits, fillArgs, fillResult, listArgs,
                 mosaicData, tabsIsEditing, enteredGrid, enteredMosaic, others>>

\* ------------------------------------------------------- specifications
\* Free user input with the brush tool and applyFill on a one-row grid with a
\* two-color palette; at most MaxEdits history pushes are explored per seeded
\* history.
Next ==
  \/ \E grid \in InputGrids : EnterEditMode(grid)
  \/ ExitEditMode
  \/ \E color \in brushColors : SetSelectedColor(color)
  \/ \E cell \in GridCells : HandleCellMouseDown(cell[1], cell[2])
  \/ \E cell \in GridCells : HandleCellMouseEnter(cell[1], cell[2])
  \/ StopPainting
  \/ ClearSelection
  \/ \E color \in brushColors :
       /\ ColorSelectPushes => nEdits < MaxEdits
       /\ HandleColorSelect(color)
  \/ \E cell \in GridCells :
       /\ FillPushes(cell[1], cell[2]) => nEdits < MaxEdits
       /\ ApplyFill(cell[1], cell[2])
  \/ Undo
  \/ Redo
  \/ ResetToOriginal

Spec == Init /\ [][Next]_vars

\* A scripted user on a one-cell grid: every edit repaints the cell with the
\* next color of the palette, so that every edit changes the grid and sessions
\* of more than MAX_HISTORY_SIZE edits are explored.
LongGrid == [r \in {0} |-> [c \in {0} |-> CellOf(LegoColor(1))]]

NextColor(grid) == LegoColor((grid[0][0].colorId % NColors) + 1)

NextLong ==
  \/ EnterEditMode(LongGrid)
  \/ ExitEditMode
  \/ editedGrid # Null /\ HandleCellMouseDown(0, 0)
  \/ /\ ColorSelectPushes
     /\ nEdits < MaxLongEdits
     /\ HandleColorSelect(NextColor(editedGrid))
  \/ editedGrid # Null /\ SetSelectedColor(NextColor(editedGrid))
  \/ /\ FillPushes(0, 0)
     /\ selectedColor = NextColor(editedGrid)
     /\ nEdits < MaxLongEdits
     /\ ApplyFill(0, 0)
  \/ Undo
  \/ Redo
  \/ ResetToOriginal

SpecLong == Init /\ [][NextLong]_vars

\* Selecting with both tools: the mouse events of the rendered grid and the
\* tool buttons, on a session entered with any input grid.
NextTools ==
  \/ \E grid \in InputGrids : EnterEditMode(grid)
  \/ \E tool \in {"brush", "fill"} : SetCurrentTool(tool)
  \/ \E cell \in GridCells : editedGrid # Null /\ HandleCellMouseDown(cell[1], cell[2])
  \/ \E cell \in GridCells : editedGrid # Null /\ HandleCellMouseEnter(cell[1], cell[2])
  \/ editedGrid # Null /\ StopPainting
  \/ \E cell \in GridCells : editedGrid # Null /\ HandleCellClick(cell[1], cell[2])

SpecTools == Init /\ [][NextTools]_vars

\* The application around the editor with the scripted user: the editor is
\* opened on the generated mosaic, every edit repaints the one cell with the
\* next color, and the session is left by Save or Cancel.
InitSession ==
  /\ InitHook
  /\ fillArgs = NoCall
  /\ fillResult = NoCall
  /\ listArgs = NoCall
  /\ listResult = NoCall
  /\ mosaicData = MosaicResponse(LongGrid)
  /\ tabsIsEditing = FALSE
  /\ enteredMosaic = NoMosaic
  /\ InitRest

NextSession ==
  \/ HandleEditMosaic
  \/ tabsIsEditing /\ HandleCellMouseDown(0, 0)
  \/ /\ tabsIsEditing
     /\ ColorSelectPushes
     /\ nEdits < MaxLongEdits
     /\ HandleColorSelect(NextColor(editedGrid))
  \/ tabsIsEditing /\ Undo
  \/ tabsIsEditing /\ Redo
  \/ tabsIsEditing /\ HandleSave
  \/ tabsIsEditing /\ HandleCancel

SpecSession == InitSession /\ [][NextSession]_vars

\* The application around the editor under free user input with the brush
\* tool, on any generated mosaic of one row.
InitApp ==
  /\ InitHook
  /\ fillArgs = NoCall
  /\ fillResult = NoCall
  /\ listArgs = NoCall
  /\ listResult = NoCall
  /\ mosaicData \in {MosaicResponse(grid) : grid \in InputGrids}
  /\ tabsIsEditing = FALSE
  /\ enteredMosaic = NoMosaic
  /\ InitRest

NextApp ==
  \/ HandleEditMosaic
  \/ \E cell \in GridCells : tabsIsEditing /\ HandleCellMouseDown(cell[1], cell[2])
  \/ \E cell \in GridCells : tabsIsEditing /\ HandleCellMouseEnter(cell[1], cell[2])
  \/ tabsIsEditing /\ StopPainting
  \/ \E color \in brushColors :
       /\ tabsIsEditing
       /\ ColorSelectPushes => nEdits < MaxEdits
       /\ HandleColorSelect(color)
  \/ tabsIsEditing /\ Undo
  \/ tabsIsEditing /\ Redo
  \/ tabsIsEditing /\ HandleSave
  \/ tabsIsEditing /\ HandleCancel

SpecApp == InitApp /\ [][NextApp]_vars

\* The whole page: config panel, image upload, results tabs with the editor
\* under the brush tool, and the server answering uploads and exports.
ExportTypes == {"mosaic-png", "shopping-csv"}

\* the cells EditableGrid renders: those of editedGrid, none without a grid
RenderedCells == IF editedGrid = Null THEN {} ELSE Cells(editedGrid)

NextProvider ==
  \/ \E size \in BASEPLATE_SIZES : SetConfig(size)
  \/ SetUploadedFile
  \/ Len(server) < MaxGenerations /\ HandleGenerate
  \/ UploadResolves
  \/ UploadRejects
  \/ HandleClear
  \/ HandleReset
  \/ \E type \in ExportTypes : HandleExport(type)
  \/ HandleEditMosaic
  \/ \E cell \in RenderedCells : HandleCellMouseDown(cell[1], cell[2])
  \/ \E color \in brushColors :
       /\ editedGrid # Null
       /\ ColorSelectPushes => nEdits < MaxEdits
       /\ HandleColorSelect(color)
  \/ editedGrid # Null /\ HandleSave
  \/ editedGrid # Null /\ HandleCancel

SpecProvider == Init /\ [][NextProvider]_vars

\* Generating and clearing without the editor: config panel, image upload,
\* exports, and the server answering.
NextGenerate ==
  \/ \E size \in BASEPLATE_SIZES : SetConfig(size)
  \/ SetUploadedFile
  \/ Len(server) < MaxGenerations /\ HandleGenerate
  \/ UploadResolves
  \/ UploadRejects
  \/ HandleClear
  \/ HandleReset
  \/ \E type \in ExportTypes : HandleExport(type)

SpecGenerate == Init /\ [][NextGenerate]_vars

\* floodFill as a pure function: the inputs are drawn by Init.
InitFill ==
  /\ InitHook
  /\ listArgs = NoCall
  /\ listResult = NoCall
  /\ mosaicData = NoMosaic
  /\ tabsIsEditing = FALSE
  /\ enteredMosaic = NoMosaic
  /\ InitRest
  /\ fillArgs \in [grid : GridsOf(2, FillCols, availableColors),
                    row : 0..1, col : 0..(FillCols - 1),
                    color : availableColors]
  /\ fillResult = NoCall

NextFill == RunFloodFill

\* floodFill called with any start coordinate, inside the grid or next to it
InitFillAny ==
  /\ InitHook
  /\ listArgs = NoCall
  /\ listResult = NoCall
  /\ mosaicData = NoMosaic
  /\ tabsIsEditing = FALSE
  /\ enteredMosaic = NoMosaic
  /\ InitRest
  /\ fillArgs \in [grid : GridsOf(2, FillCols, availableColors),
                    row : -1..2, col : -1..FillCols,
                    color : availableColors]
  /\ fillResult = NoCall

SpecFillAny == InitFillAny /\ [][NextFill]_vars

SpecFill == InitFill /\ [][NextFill]_vars

\* recalculateShoppingList as a pure function: the grid is drawn by Init.
InitList ==
  /\ InitHook
  /\ fillArgs = NoCall
  /\ fillResult = NoCall
  /\ listArgs \in [grid : UNION {GridsOf(nr, nc, availableColors) :
                                   nr \in 1..2, nc \in 1..ListCols}]
  /\ listResult = NoCall
  /\ mosaicData = NoMosaic
  /\ tabsIsEditing = FALSE
  /\ enteredMosaic = NoMosaic
  /\ InitRest

NextList == RunRecalculateShoppingList

\* nearest as a pure function: pixel and palette are drawn by Init.
InitMatch ==
  /\ InitHook
  /\ fillArgs = NoCall
  /\ fillResult = NoCall
  /\ listArgs = NoCall
  /\ listResult = NoCall
  /\ mosaicData = NoMosaic
  /\ tabsIsEditing = FALSE
  /\ enteredMosaic = NoMosaic
  /\ InitProvider
  /\ hp = NoHeap
  /\ matchArgs \in [pixelRGB : SampleRGB, palette : Palettes]
  /\ matchResult = <<>>

NextMatch == RunNearest

SpecList == InitList /\ [][NextList]_vars

SpecMatch == InitMatch /\ [][NextMatch]_vars

\* the heap holds the grid of the generated mosaic; no session is open
InitHeap ==
  /\ InitHook
  /\ fillArgs = NoCall
  /\ fillResult = NoCall
  /\ listArgs = NoCall
  /\ listResult = NoCall
  /\ mosaicData = NoMosaic
  /\ tabsIsEditing = FALSE
  /\ enteredMosaic = NoMosaic
  /\ InitProvider
  /\ matchArgs = NoCall
  /\ matchResult = NoCall
  /\ \E grid \in GridsOf(2, 1, brushColors) :
       hp = [rowsAt |-> <<grid[0], grid[1]>>,
             gridsAt |-> << [r \in 0..1 |-> r + 1] >>,
             mosaicGrid |-> 1, editedGrid |-> 0, originalGrid |-> 0,
             history |-> <<>>, historyIndex |-> -1, selectedCells |-> {},
             frozen |-> {}, ops |-> 0]

HeapCells == (0..1) \X {0}

NextHeap ==
  \/ HeapEnterEditMode
  \/ HeapCancel
  \/ HeapSave
  \/ \E cell \in HeapCells : HeapStartPainting(cell[1], cell[2])
  \/ \E cell \in HeapCells : HeapContinuePainting(cell[1], cell[2])
  \/ \E color \in brushColors : HeapColorSelect(color)
  \/ \E cell \in HeapCells, color \in brushColors :
       HeapApplyFill(cell[1], cell[2], color)
  \/ HeapUndo
  \/ HeapRedo
  \/ HeapResetToOriginal

SpecHeap == InitHeap /\ [][NextHeap]_vars

\* ------------------------------------------------------------- properties
EditOps == {"colorSelect", "applyFill"}

\* the step is a handler that pushed a history entry
EditStep == lastOp'.op \in EditOps /\ lastOp'.acted

\* C1: immediately after a successful applyColorToSelection on a non-empty
\* selection, a single undo() makes the current grid equal to the grid that was
\* current just before that edit.
C1_UndoRestoresPreEditGrid ==
  [][(lastOp.op = "colorSelect" /\ lastOp.acted /\ lastOp'.op = "undo")
       => editedGrid' = pre.grid]_vars

\* C2: whenever undo() takes effect, undo() followed immediately by redo()
\* restores the current grid and the cursor to what they were before the undo.
C2_UndoRedoRoundTrip ==
  [][(lastOp.op = "undo" /\ lastOp.acted /\ lastOp'.op = "redo")
       => (editedGrid' = pre.grid /\ historyIndex' = pre.index)]_vars

\* C3: while a session is Active, editedGrid equals the history snapshot at the
\* cursor and 0 <= cursor <= history length - 1.
C3_GridIsSnapshotAtCursor ==
  isEditing =>
    /\ 0 <= historyIndex
    /\ historyIndex <= Len(history) - 1
    /\ editedGrid = HistoryAt(historyIndex)

\* C4: when an edit is pushed on top of a history that already holds
\* MAX_HISTORY_SIZE snapshots, exactly the oldest snapshot is evicted and the
\* cursor designates the snapshot just pushed (cursor = last index).
C4_EvictOldestKeepCursorOnPushed ==
  [][(EditStep /\ Len(history) = MAX_HISTORY_SIZE
               /\ historyIndex = MAX_HISTORY_SIZE - 1)
       => /\ history' = Append(Tail(history), editedGrid')
          /\ historyIndex' = Len(history') - 1]_vars

\* C5: the history never holds more than MAX_HISTORY_SIZE snapshots, and it
\* holds at least one while the session is Active.
C5_HistoryBounded ==
  /\ Len(history) <= MAX_HISTORY_SIZE
  /\ isEditing => Len(history) >= 1

\* a push has happened on a full history, after more than MAX_HISTORY_SIZE edits
C5_Witness ==
  /\ isEditing
  /\ lastOp.op \in EditOps /\ lastOp.acted
  /\ pre.len = MAX_HISTORY_SIZE /\ pre.index = MAX_HISTORY_SIZE - 1
  /\ nEdits > MAX_HISTORY_SIZE
  /\ Len(history) = MAX_HISTORY_SIZE

\* C6: when an edit is applied while the cursor is not at the last history
\* entry, every entry after the cursor is discarded before the new grid is
\* appended; afterwards the new grid is the last entry, the cursor designates
\* it, and redo() is a no-op (canRedo is false).
C6_EditDiscardsRedoEntries ==
  [][(EditStep /\ historyIndex < Len(history) - 1)
       => /\ history' = Append(SubSeq(history, 1, historyIndex + 1), editedGrid')
          /\ historyIndex' = Len(history') - 1
          /\ ~canRedo']_vars

\* an edit has been applied after one or more undos
C6_Witness ==
  /\ lastOp.op \in EditOps /\ lastOp.acted
  /\ pre.index < pre.len - 1
  /\ Len(history) = pre.index + 2
  /\ historyIndex = Len(history) - 1

\* C7: undo() with the cursor at 0 and redo() with the cursor at the last
\* history index change neither the current grid, nor the history, nor the
\* cursor.
C7_UndoRedoNoOpAtEnds ==
  [][/\ (lastOp'.op = "undo" /\ historyIndex = 0)
          => UNCHANGED <<editedGrid, history, historyIndex>>
     /\ (lastOp'.op = "redo" /\ historyIndex = Len(history) - 1)
          => UNCHANGED <<editedGrid, history, historyIndex>>]_vars

\* undo() has been called on a freshly entered session
C7_Witness ==
  /\ isEditing
  /\ lastOp.op = "undo" /\ ~lastOp.acted
  /\ pre.index = 0 /\ pre.len = 1
  /\ historyIndex = 0 /\ Len(history) = 1

\* 4-neighborhood: up, down, left, right
Adjacent(p, q) ==
  \/ p[1] = q[1] /\ (p[2] = q[2] + 1 \/ q[2] = p[2] + 1)
  \/ p[2] = q[2] /\ (p[1] = q[1] + 1 \/ q[1] = p[1] + 1)

\* the maximal 4-connected region of cells that share the color of the region
RECURSIVE GrowRegion(_, _, _)
GrowRegion(grid, colorId, region) ==
  LET more == {q \in Cells(grid) :
                 /\ grid[q[1]][q[2]].colorId = colorId
                 /\ \E p \in region : Adjacent(p, q)}
  IN  IF more \subseteq region THEN region
      ELSE GrowRegion(grid, colorId, region \cup more)

Region(grid, row, col) == GrowRegion(grid, grid[row][col].colorId, {<<row, col>>})

\* C8: for a color whose id differs from the start cell's colorId, floodFill
\* returns a grid in which exactly the cells of the maximal 4-connected region
\* of the start cell carry the four fields of the new color, and every other
\* cell is identical to the input.
C8_FloodFillRegion ==
  (fillResult # NoCall
     /\ fillArgs.grid[fillArgs.row][fillArgs.col].colorId # fillArgs.color.id)
  => /\ DOMAIN fillResult.grid = DOMAIN fillArgs.grid
     /\ \A r \in DOMAIN fillArgs.grid :
          /\ DOMAIN fillResult.grid[r] = DOMAIN fillArgs.grid[r]
          /\ \A c \in DOMAIN fillArgs.grid[r] :
               fillResult.grid[r][c] =
                 IF <<r, c>> \in Region(fillArgs.grid, fillArgs.row, fillArgs.col)
                   THEN CellOf(fillArgs.color)
                   ELSE fillArgs.grid[r][c]

\* a fill of a region of several cells, with cells of the same color left
\* outside it because they touch it only diagonally or not at all
C8_Witness ==
  /\ fillResult # NoCall
  /\ fillResult.ref = "fresh"
  /\ LET region == Region(fillArgs.grid, fillArgs.row, fillArgs.col)
     IN  /\ Cardinality(region) >= 3
         /\ \E q \in Cells(fillArgs.grid) \ region :
              /\ fillArgs.grid[q[1]][q[2]].colorId
                   = fillArgs.grid[fillArgs.row][fillArgs.col].colorId
              /\ fillResult.grid[q[1]][q[2]] = fillArgs.grid[q[1]][q[2]]

\* C9: flood-filling from a cell whose colorId already equals the chosen
\* color's id changes neither the grid, nor the history, nor the cursor.
C9_FillSameColorNoOp ==
  [][(/\ lastOp'.op = "applyFill"
      /\ editedGrid # Null
      /\ selectedColor # NoColor
      /\ editedGrid[lastOp'.args[1]][lastOp'.args[2]].colorId = selectedColor.id)
       => UNCHANGED <<editedGrid, history, historyIndex>>]_vars

\* applyFill has been called on a cell that already had the selected color
C9_Witness ==
  /\ lastOp.op = "applyFill"
  /\ pre.grid # Null
  /\ selectedColor # NoColor
  /\ pre.grid[lastOp.args[1]][lastOp.args[2]].colorId = selectedColor.id
  /\ Len(history) = pre.len /\ pre.len >= 2

Uniform(grid) == \A p, q \in Cells(grid) : grid[p[1]][p[2]].colorId = grid[q[1]][q[2]].colorId

\* C10: flood-filling a grid whose cells all share one colorId with a different
\* color changes every cell to that color, appends exactly one history entry
\* (the new grid), and the shopping list of the result is a single item of that
\* color whose quantity is the number of cells.
C10_FillUniformGrid ==
  [][(/\ lastOp'.op = "applyFill"
      /\ editedGrid # Null
      /\ selectedColor # NoColor
      /\ Uniform(editedGrid)
      /\ editedGrid[0][0].colorId # selectedColor.id)
       => /\ \A p \in Cells(editedGrid) : editedGrid'[p[1]][p[2]] = CellOf(selectedColor)
          /\ DOMAIN editedGrid' = DOMAIN editedGrid
          /\ LET pushed == Append(SubSeq(history, 1, historyIndex + 1), editedGrid')
             IN  history' = pushed \/ history' = Tail(pushed)
          /\ recalculateShoppingList(editedGrid') =
               << [colorId |-> selectedColor.id, colorName |-> selectedColor.name,
                   rgb |-> selectedColor.rgb, hex |-> selectedColor.hex,
                   quantity |-> Cardinality(Cells(editedGrid))] >>]_vars

\* a grid of several cells of one color has been filled with another color
C10_Witness ==
  /\ lastOp.op = "applyFill" /\ lastOp.acted
  /\ pre.grid # Null
  /\ Uniform(pre.grid)
  /\ Cardinality(Cells(pre.grid)) >= 2
  /\ Len(recalculateShoppingList(editedGrid)) = 1

\* C11: with the fill tool, one click on a cell leaves the selection equal to
\* the set of all cells 4-connected to the clicked cell through cells of the
\* same colorId.
C11_FillClickSelectsRegion ==
  [][(lastOp'.op = "cellClick" /\ currentTool = "fill" /\ editedGrid # Null)
       => selectedCells' =
            {CellKey(p[1], p[2]) :
               p \in Region(editedGrid, lastOp'.args[1], lastOp'.args[2])}]_vars

\* the number of cells of the grid that carry the colorId
CountOf(grid, colorId) ==
  Cardinality({p \in Cells(grid) : grid[p[1]][p[2]].colorId = colorId})

RECURSIVE SumQuantity(_)
SumQuantity(list) ==
  IF list = <<>> THEN 0 ELSE Head(list).quantity + SumQuantity(Tail(list))

\* C12: for every rectangular grid, the aggregated shopping list has exactly one
\* item per distinct colorId present in the grid, each item's quantity is the
\* number of cells with that colorId (hence >= 1), and the quantities sum to
\* rows x cols.
C12_OneItemPerColorWithCount ==
  listResult # NoCall =>
    LET grid == listArgs.grid
        list == listResult.list
        ids == {grid[p[1]][p[2]].colorId : p \in Cells(grid)}
    IN  /\ \A id \in ids :
             Cardinality({i \in 1..Len(list) : list[i].colorId = id}) = 1
        /\ \A i \in 1..Len(list) :
             /\ list[i].colorId \in ids
             /\ list[i].quantity = CountOf(grid, list[i].colorId)
             /\ list[i].quantity >= 1
        /\ SumQuantity(list) = NumRows(grid) * NumCols(grid)

\* the list of a two-row grid with several colors, one of them on several cells
C12_Witness ==
  /\ listResult # NoCall
  /\ NumRows(listArgs.grid) = 2
  /\ Len(listResult.list) >= 2
  /\ \E i \in 1..Len(listResult.list) : listResult.list[i].quantity >= 2

\* the position of the first cell with the colorId in a row-major scan
FirstSeen(grid, colorId) ==
  LET at == {p[1] * NumCols(grid) + p[2] :
               p \in {q \in Cells(grid) : grid[q[1]][q[2]].colorId = colorId}}
  IN  CHOOSE n \in at : \A m \in at : n <= m

\* C13: the aggregated shopping list is sorted by quantity non-increasing, and
\* items of equal quantity appear in the order their colorId is first seen in a
\* row-major scan of the grid.
C13_SortedByQuantityStable ==
  listResult # NoCall =>
    LET grid == listArgs.grid
        list == listResult.list
    IN  \A i, j \in 1..Len(list) :
          i < j =>
            /\ list[i].quantity >= list[j].quantity
            /\ list[i].quantity = list[j].quantity
                 => FirstSeen(grid, list[i].colorId) < FirstSeen(grid, list[j].colorId)

\* a checkerboard of two rows: two items of equal quantity, listed in
\* first-seen order although the color seen first has the larger id
C13_Witness ==
  /\ listResult # NoCall
  /\ NumRows(listArgs.grid) = 2 /\ NumCols(listArgs.grid) = 2
  /\ listArgs.grid[0][0].colorId = listArgs.grid[1][1].colorId
  /\ listArgs.grid[0][1].colorId = listArgs.grid[1][0].colorId
  /\ Len(listResult.list) = 2
  /\ listResult.list[1].quantity = 2 /\ listResult.list[2].quantity = 2
  /\ listResult.list[1].colorId = listArgs.grid[0][0].colorId
  /\ listResult.list[1].colorId > listResult.list[2].colorId

\* C14: applying a color to a non-empty selection overwrites colorId,
\* colorName, rgb and hex of every selected cell from the chosen color, leaves
\* every non-selected cell unchanged, pushes exactly one history entry, and
\* leaves the selection empty.
C14_ApplyColorToSelection ==
  [][(lastOp'.op = "colorSelect" /\ selectedCells # {} /\ editedGrid # Null)
       => LET color == LegoColor(lastOp'.args[1])
              pushed == Append(SubSeq(history, 1, historyIndex + 1), editedGrid')
          IN  /\ DOMAIN editedGrid' = DOMAIN editedGrid
              /\ \A r \in DOMAIN editedGrid :
                   /\ DOMAIN editedGrid'[r] = DOMAIN editedGrid[r]
                   /\ \A c \in DOMAIN editedGrid[r] :
                        editedGrid'[r][c] =
                          IF CellKey(r, c) \in selectedCells
                            THEN CellOf(color)
                            ELSE editedGrid[r][c]
              /\ history' = IF Len(pushed) > MAX_HISTORY_SIZE
                              THEN Tail(pushed) ELSE pushed
              /\ selectedCells' = {}]_vars

\* a color has been applied to a selection: one cell was repainted, another
\* cell of a different color was kept, one entry was pushed
C14_Witness ==
  /\ lastOp.op = "colorSelect" /\ lastOp.acted
  /\ selectedCells = {}
  /\ Len(history) = pre.len + 1
  /\ \E p, q \in Cells(editedGrid) :
       /\ editedGrid[p[1]][p[2]] # pre.grid[p[1]][p[2]]
       /\ editedGrid[p[1]][p[2]].colorId = lastOp.args[1]
       /\ editedGrid[q[1]][q[2]] = pre.grid[q[1]][q[2]]
       /\ editedGrid[q[1]][q[2]].colorId # lastOp.args[1]

\* C15: choosing a color while the selection is empty is a no-op: the grid,
\* the history contents, the history length and the cursor are unchanged.
C15_ColorSelectEmptySelectionNoOp ==
  [][(lastOp'.op = "colorSelect" /\ selectedCells = {})
       => /\ UNCHANGED <<editedGrid, history, historyIndex>>
          /\ Len(history') = Len(history)]_vars

\* a color has been chosen with an empty selection in a session that already
\* holds an edit
C15_Witness ==
  /\ isEditing
  /\ lastOp.op = "colorSelect" /\ ~lastOp.acted
  /\ selectedCells = {}
  /\ pre.len = 2 /\ Len(history) = 2
  /\ pre.grid = editedGrid

\* C16: resetToOriginal, from any Active state (after any edits, undos, and
\* after the history has evicted old entries), leaves the history with exactly
\* one entry, cursor = 0, no redo available, and the current grid equal to
\* entry 0's grid, which is the grid the session was entered with.
C16_ResetRestoresEnteredGrid ==
  [][(lastOp'.op = "resetToOriginal" /\ isEditing)
       => /\ Len(history') = 1
          /\ historyIndex' = 0
          /\ ~canRedo'
          /\ editedGrid' = history'[1]
          /\ history'[1] = enteredGrid]_vars

\* a reset of a full history whose oldest entry was no longer the entered grid
\* (it had been evicted), with the cursor moved back by undo
C16_Witness ==
  /\ isEditing
  /\ lastOp.op = "resetToOriginal" /\ lastOp.acted
  /\ pre.len = MAX_HISTORY_SIZE
  /\ pre.index < MAX_HISTORY_SIZE - 2
  /\ pre.first # enteredGrid
  /\ pre.grid # enteredGrid
  /\ history = <<enteredGrid>> /\ historyIndex = 0

\* C17: entering a session while a session is already Active fails and leaves
\* the existing session's grid, history, cursor and selection unchanged.
C17_EnterWhileActiveRejected ==
  [][(lastOp'.op = "enterEditMode" /\ isEditing)
       => UNCHANGED <<editedGrid, history, historyIndex, selectedCells>>]_vars

\* the handlers behind select, apply color, fill, undo, redo and reset
SessionOps ==
  {"cellMouseDown", "cellMouseEnter", "colorSelect", "applyFill", "undo", "redo",
   "resetToOriginal"}

\* C18: every edit operation (select, apply color, fill, undo, redo, reset)
\* invoked while no session is Active changes no session state: the grid stays
\* absent, the history stays empty, the cursor stays at its inactive value and
\* the selection stays empty.
C18_InactiveOpsChangeNothing ==
  [][(~isEditing /\ lastOp'.op \in SessionOps)
       => /\ editedGrid' = Null
          /\ history' = <<>>
          /\ historyIndex' = -1
          /\ selectedCells' = {}]_vars

\* the list has one item per colorId of the grid, with the number of its cells
AggregatedFrom(list, grid) ==
  LET ids == {grid[p[1]][p[2]].colorId : p \in Cells(grid)}
  IN  /\ {list[i].colorId : i \in 1..Len(list)} = ids
      /\ Len(list) = Cardinality(ids)
      /\ \A i \in 1..Len(list) : list[i].quantity = CountOf(grid, list[i].colorId)

\* C19: saving an Active session hands the caller the current grid (the grid
\* at the cursor, reflecting undos and redos) together with the shopping list
\* aggregated from exactly that grid, and afterwards the session is no longer
\* Active, with its history and selection released.
C19_SaveHandsGridAtCursor ==
  [][(lastOp'.op = "save" /\ isEditing)
       => /\ lastOp'.acted
          /\ lastOp'.args[1] = editedGrid
          /\ lastOp'.args[1] = HistoryAt(historyIndex)
          /\ AggregatedFrom(lastOp'.args[2], lastOp'.args[1])
          /\ mosaicData'.grid = lastOp'.args[1]
          /\ mosaicData'.shoppingList = lastOp'.args[2]
          /\ ~isEditing'
          /\ history' = <<>>
          /\ historyIndex' = -1
          /\ selectedCells' = {}]_vars

\* C20: cancelling an Active session after any sequence of edits leaves the
\* caller's mosaic (grid, shopping list, preview, metadata) exactly as it was
\* before the session was entered, and releases the session's history and
\* selection.
C20_CancelLeavesMosaic ==
  [][(lastOp'.op = "cancel" /\ isEditing)
       => /\ mosaicData'.grid = enteredMosaic.grid
          /\ mosaicData'.shoppingList = enteredMosaic.shoppingList
          /\ mosaicData'.previewUrl = enteredMosaic.previewUrl
          /\ mosaicData'.metadata = enteredMosaic.metadata
          /\ mosaicData' = enteredMosaic
          /\ ~isEditing'
          /\ ~tabsIsEditing'
          /\ history' = <<>>
          /\ historyIndex' = -1
          /\ selectedCells' = {}]_vars

\* a session whose grid had been edited away from the mosaic's grid has been
\* cancelled
C20_Witness ==
  /\ lastOp.op = "cancel"
  /\ pre.len >= 2
  /\ pre.grid # Null /\ pre.grid # mosaicData.grid
  /\ mosaicData = enteredMosaic
  /\ ~isEditing /\ ~tabsIsEditing
  /\ history = <<>> /\ selectedCells = {}

\* C21: after an edit session is saved, any export is produced from the
\* edited grid and its shopping list, the ones the page holds, not from the
\* originally generated ones.
C21_ExportUsesSavedGrid ==
  [][(lastOp'.op = "export")
       => /\ lastOp'.args[2] = mosaicData.grid
          /\ lastOp'.args[3] = mosaicData.shoppingList]_vars

\* every cell of the grid carries the four fields of the palette color that
\* its colorId identifies
ConsistentWith(grid, palette) ==
  \A p \in Cells(grid) :
    \E color \in palette :
      /\ color.id = grid[p[1]][p[2]].colorId
      /\ grid[p[1]][p[2]] = CellOf(color)

\* C22: in every grid reachable in an edit session (the current grid and
\* every history snapshot), each cell's colorName, rgb and hex are those of the
\* palette color identified by its colorId, so any two cells with the same
\* colorId agree on all four fields.
C22_CellsAgreeWithPalette ==
  LET grids == (IF editedGrid = Null THEN {} ELSE {editedGrid})
                 \cup {history[i] : i \in 1..Len(history)}
  IN  \A grid \in grids :
        /\ ConsistentWith(grid, brushColors)
        /\ \A p, q \in Cells(grid) :
             grid[p[1]][p[2]].colorId = grid[q[1]][q[2]].colorId
               => grid[p[1]][p[2]] = grid[q[1]][q[2]]

\* a cell has been repainted to the color that another, untouched cell of the
\* grid already had
C22_Witness ==
  /\ lastOp.op \in EditOps /\ lastOp.acted
  /\ Len(history) >= 2
  /\ \E p, q \in Cells(editedGrid) :
       /\ p # q
       /\ editedGrid[p[1]][p[2]] # pre.grid[p[1]][p[2]]
       /\ editedGrid[q[1]][q[2]] = pre.grid[q[1]][q[2]]
       /\ editedGrid[p[1]][p[2]].colorId = editedGrid[q[1]][q[2]].colorId

\* C23: after every save of an edit session, the mosaic metadata agrees with
\* the stored grid: totalPieces equals rows x cols of the grid and the sum of
\* the shopping-list quantities, and uniqueColors equals the number of
\* distinct colorIds in the grid.
C23_MetadataAgreesAfterSave ==
  [][(lastOp'.op = "save" /\ lastOp'.acted /\ mosaicData' # NoMosaic)
       => LET grid == mosaicData'.grid
              meta == mosaicData'.metadata
          IN  /\ meta.totalPieces = NumRows(grid) * NumCols(grid)
              /\ meta.totalPieces = SumQuantity(mosaicData'.shoppingList)
              /\ meta.uniqueColors =
                   Cardinality({grid[p[1]][p[2]].colorId : p \in Cells(grid)})]_vars

\* C24: when the generate call fails, the held mosaic (grid, shopping list,
\* preview, metadata) is left exactly as before, an error is recorded and the
\* loading flag returns to false; on success the whole mosaic is replaced at
\* once by the response.
C24_FailedGenerationKeepsMosaic ==
  [][/\ lastOp'.op = "uploadRejects"
          => /\ mosaicData' = mosaicData
             /\ mosaicData # NoMosaic
                  => /\ mosaicData'.grid = mosaicData.grid
                     /\ mosaicData'.shoppingList = mosaicData.shoppingList
                     /\ mosaicData'.previewUrl = mosaicData.previewUrl
                     /\ mosaicData'.metadata = mosaicData.metadata
             /\ error' # NoError
             /\ ~isLoading'
     /\ lastOp'.op = "uploadResolves"
          => /\ mosaicData' # NoMosaic
             /\ mosaicData'.grid = server'[mosaicData'.sessionId]
             /\ mosaicData'.shoppingList = recalculateShoppingList(mosaicData'.grid)
             /\ mosaicData'.previewUrl = <<"upload-preview">>
             /\ mosaicData'.metadata.baseplateSize = pending.config
             /\ mosaicData'.metadata.totalPieces = pending.config * pending.config
             /\ error' = NoError
             /\ ~isLoading']_vars

\* a generation with another baseplate size has failed while a mosaic was
\* held, and the mosaic is still the one held before
C24_Witness ==
  /\ lastOp.op = "uploadRejects"
  /\ mosaicData # NoMosaic
  /\ lastOp.args[1] = mosaicData
  /\ config # mosaicData.metadata.baseplateSize
  /\ error # NoError
  /\ ~isLoading /\ pending = NoCall

\* position of a color in a palette (ids are unique within a palette)
PositionIn(palette, color) ==
  CHOOSE i \in 1..Len(palette) : palette[i].id = color.id

\* C25: for every palette with at least one color and every pixel color,
\* nearest returns a member of the palette at minimum distance, the first in
\* palette order among those at the minimum distance; two calls with
\* identical inputs return the same color id.
C25_NearestIsFirstMinimum ==
  (matchArgs # NoCall /\ Len(matchArgs.palette) >= 1) =>
    LET palette == matchArgs.palette
        pixel == matchArgs.pixelRGB
    IN  /\ \A k \in 1..Len(matchResult) :
              /\ \E i \in 1..Len(palette) : palette[i] = matchResult[k]
              /\ \A j \in 1..Len(palette) :
                    /\ DeltaE2(pixel, matchResult[k].rgb) <= DeltaE2(pixel, palette[j].rgb)
                    /\ DeltaE2(pixel, matchResult[k].rgb) = DeltaE2(pixel, palette[j].rgb)
                          => PositionIn(palette, matchResult[k]) <= j
        /\ \A k, l \in 1..Len(matchResult) : matchResult[k].id = matchResult[l].id

\* two calls were made on a palette where a later entry with a smaller id is
\* at the same minimum distance as the returned one, and a nearer-looking
\* first entry is farther away
C25_Witness ==
  /\ matchArgs # NoCall
  /\ Len(matchResult) = 2
  /\ Len(matchArgs.palette) = 3
  /\ matchResult[1] = matchArgs.palette[2]
  /\ matchArgs.palette[3].rgb = matchArgs.palette[2].rgb
  /\ matchArgs.palette[3].id < matchArgs.palette[2].id
  /\ matchArgs.palette[1].rgb # matchArgs.palette[2].rgb
  /\ matchArgs.pixelRGB # matchResult[1].rgb

\* C26: for every rectangular grid and every start coordinate, floodFill
\* terminates with a grid, recolors each cell at most once, and reads no cell
\* whose coordinates it has not tested against the grid dimensions, the start
\* cell included.
C26_FloodFillBoundChecked ==
  fillResult # NoCall =>
    /\ fillResult.ref # "thrown"
    /\ DOMAIN fillResult.grid = DOMAIN fillArgs.grid
    /\ LET grid == fillArgs.grid
           writes == floodWrites(grid, grid[fillArgs.row][fillArgs.col].colorId,
                                 << <<fillArgs.row, fillArgs.col>> >>, {})
       IN  /\ \A i, j \in 1..Len(writes) : writes[i] = writes[j] => i = j
           /\ \A i \in 1..Len(writes) : writes[i] \in Cells(grid)

\* C27: once a grid has been pushed to the history, no later apply, fill,
\* undo, redo or selection operation changes its contents, nor those of the
\* grid passed to enterEditMode or of the input grid of floodFill, although
\* the current grid, the original grid and history entry 0 start out as the
\* same object.
C27_SnapshotsImmutable ==
  hp # NoHeap =>
    /\ \A f \in hp.frozen : GridOf(hp, f.ref) = f.contents
    /\ \A i \in 1..Len(hp.history) :
         \E f \in hp.frozen : f.ref = hp.history[i]

\* history entry 0 is still the object held as the original grid, an edit
\* was pushed after it with other contents and then undone, so the current
\* grid is a third object
C27_Witness ==
  /\ hp # NoHeap
  /\ Len(hp.history) = 2
  /\ hp.history[1] = hp.originalGrid
  /\ hp.historyIndex = 0
  /\ hp.editedGrid \notin {hp.history[1], hp.history[2]}
  /\ GridOf(hp, hp.history[2]) # GridOf(hp, hp.history[1])
  /\ GridOf(hp, hp.editedGrid) = GridOf(hp, hp.history[1])

\* the cells in which the result of the floodFill call differs from its input
Recolored ==
  {p \in Cells(fillArgs.grid) : fillResult.grid[p[1]][p[2]] # fillArgs.grid[p[1]][p[2]]}

\* the cells the search of the click handler collects for the same grid and
\* start cell
Connected ==
  {ParseKey(key) :
     key \in connectLoop(fillArgs.grid,
                         fillArgs.grid[fillArgs.row][fillArgs.col].colorId, {},
                         << <<fillArgs.row, fillArgs.col>> >>, {})}

\* C28: for every grid and in-range start cell, the set of cells the click
\* handler of the fill tool collects equals the set of cells floodFill
\* recolors, for any new color other than the color of the start cell; both
\* are the region of the start cell in the input grid.
C28_RegionSearchesAgree ==
  (fillResult # NoCall
     /\ fillArgs.grid[fillArgs.row][fillArgs.col].colorId # fillArgs.color.id)
  => /\ Connected = Recolored
     /\ Connected = Region(fillArgs.grid, fillArgs.row, fillArgs.col)

\* both searches found a region of two or more cells that has a cell to the
\* left of the start cell and leaves out a cell of the same color
C28_Witness ==
  /\ fillResult # NoCall
  /\ fillArgs.grid[fillArgs.row][fillArgs.col].colorId # fillArgs.color.id
  /\ Cardinality(Recolored) >= 2
  /\ <<fillArgs.row, fillArgs.col - 1>> \in Connected
  /\ \E q \in Cells(fillArgs.grid) \ Connected :
       fillArgs.grid[q[1]][q[2]].colorId
         = fillArgs.grid[fillArgs.row][fillArgs.col].colorId

\* C29: whenever a mosaic is held, its grid has baseplateSize rows and every
\* row has baseplateSize cells, baseplateSize being the one of its metadata,
\* under any interleaving of generate, enter-edit, edit, save and cancel.
C29_GridMatchesBaseplateSize ==
  mosaicData # NoMosaic =>
    /\ NumRows(mosaicData.grid) = mosaicData.metadata.baseplateSize
    /\ \A r \in DOMAIN mosaicData.grid :
         Cardinality(DOMAIN mosaicData.grid[r]) = mosaicData.metadata.baseplateSize

\* C30: a response that arrives while neither a mosaic nor an uploaded file
\* is held (they were cleared after its request was sent, for Generate needs
\* an uploaded file) does not repopulate them.
C30_ClearedStaysCleared ==
  [][(/\ lastOp'.op = "uploadResolves"
      /\ mosaicData = NoMosaic
      /\ uploadedFile = NoFile)
       => (mosaicData' = NoMosaic /\ uploadedFile' = NoFile)]_vars
====
